---- MODULE Spec2Model ----
(***************************************************************************)
(* The A2A task-lifecycle protocol engine: the JSON-RPC router             *)
(* (shared/server.py, A2AServer), the CLI task manager                     *)
(* (agents/claude_cli/base_cli_task_manager.py, CLIAgentTaskManager) and   *)
(* the wire types (shared/custom_types.py).  The in-memory store, the SSE  *)
(* hub and the push-notification sender live in shared/abc_task_manager.py,*)
(* shared/utils.py and shared/push_notification_auth.py; their operations  *)
(* are modelled from the specification's contracts (sections 4.1-4.3).     *)
(* Beside the engine: the host agent that talks to it                      *)
(* (host/base_host_agent.py, BaseHostAgent) and the frame processor of the *)
(* perception pipeline (agents/claude_cli/perception/xr_frame_processor.py,*)
(* RealTimeFrameProcessor).                                                *)
(***************************************************************************)
EXTENDS Integers, Sequences, FiniteSets, TLC

\* ------------------------------------------------------------------ bounds
MaxHistory == 2     \* messages all stored histories hold together at most
MaxClock   == 1     \* ticks of datetime.now() that are told apart
MaxStreams == 1     \* background producers ever started
MaxItems   == 2     \* items one agent stream yields at most

\* ------------------------------------------------------------- vocabulary
TaskIds  == {"T1", "T2"}
ReqIds   == {"r1", "r2"}
Texts    == {"Hi", "more"}
Null     == "null"          \* JSON null / Python None
Uuid     == "uuid4"         \* str(uuid.uuid4()): never equal to a caller's id
AutoId   == "auto"          \* body.get('id', 'auto')

\* custom_types.py TaskState
SUBMITTED      == "submitted"
WORKING        == "working"
INPUT_REQUIRED == "input-required"
AUTH_REQUIRED  == "auth-required"
COMPLETED      == "completed"
CANCELED       == "canceled"
REJECTED       == "rejected"
FAILED         == "failed"
UNKNOWN        == "unknown"
TaskState == {SUBMITTED, WORKING, INPUT_REQUIRED, AUTH_REQUIRED, COMPLETED,
              CANCELED, REJECTED, FAILED, UNKNOWN}
TerminalStates == {COMPLETED, CANCELED, REJECTED, FAILED}

\* custom_types.py A2AErrorCodes
PARSE_ERROR                == -32700
INVALID_REQUEST            == -32600
METHOD_NOT_FOUND           == -32601
INVALID_PARAMS             == -32602
INTERNAL_ERROR             == -32603
TASK_NOT_FOUND             == -32001
TASK_NOT_CANCELABLE        == -32002
CONTENT_TYPE_NOT_SUPPORTED == -32005
NoError == 0                \* error member is None

\* The method names of the A2ARequest union (custom_types.py)
MethodNames == {"message/send", "message/stream", "tasks/get", "tasks/cancel",
                "tasks/pushNotification/set", "tasks/pushNotification/get",
                "tasks/resubscribe", "tasks/send", "tasks/sendSubscribe"}
UnknownMethod == "tasks/doesNotExist"


\* -------------------------------------------------------------------- state
VARIABLES
    tasks,          \* TaskStore: task id -> Task (status, artifacts, history)
    push_infos,     \* PushNotificationRegistry: task id -> verified callback url
    subscribers,    \* SSEHub: task id -> sequence of consumer queues
    producers,      \* background _run_streaming_agent tasks, by number
    inflight,       \* on_send_task calls suspended in agent.invoke_async
    notified,       \* push notifications attempted by the last step: <<task, state>>
    clock,          \* datetime.now()
    last,           \* the exchange the last step completed: the request, how it
                    \* came in, what the agent did, what was answered
    host,           \* BaseHostAgent: its state dict, the messages it posted
                    \* with their answers, what the last call gave
    processor       \* RealTimeFrameProcessor: buffer pool, queues, workers

vars == <<tasks, push_infos, subscribers, producers, inflight, notified, clock,
          last, host, processor>>

\* a step that attempts no push notification
Quiet == notified' = <<>>

\* a step of the A2A server: the host agent and the frame processor are
\* other objects
ServerStep == UNCHANGED <<host, processor>>

\* ------------------------------------------------------------ small helpers
\* function f with key k set to v (k may be new)
Put(f, k, v) == [x \in DOMAIN f \cup {k} |-> IF x = k THEN v ELSE f[x]]

EmptyMap == [x \in {} |-> Null]

\* the last n entries of a sequence
LastN(s, n) == IF n >= Len(s) THEN s ELSE SubSeq(s, Len(s) - n + 1, Len(s))

\* ------------------------------------------------------------ wire records
\* custom_types.py TaskStatus: state, optional message, timestamp = datetime.now()
TaskStatus(state, message, now) ==
    [state |-> state, message |-> message, timestamp |-> now]

\* custom_types.py JSONRPCResponse: result and error both default to None
NoResult == [tag |-> "none"]

JSONRPCResponse(id, result, error) ==
    [id |-> id, result |-> result, error |-> error]

\* custom_types.py JSONRPCResponse.validate_result_or_error
validate_result_or_error(r) ==
    /\ ~(r.result # NoResult /\ r.error # NoError)
    /\ ~(r.result = NoResult /\ r.error = NoError)

\* A Task as it is put in a result: custom_types.py Task / A2ATaskResponse
TaskResult(id, task) ==
    [tag |-> "task", id |-> id, state |-> task.status.state,
     message |-> task.status.message, artifacts |-> task.artifacts,
     history |-> task.history]

\* ------------------------------------------------------- TaskStore contract
HistNone == -1      \* historyLength is None

\* upsert that treats a known id like a new one as far as the status goes:
\* the message is appended but the status is set back to SUBMITTED
upsert_task_resetting(store, t, msg, now) ==
    IF t \in DOMAIN store
    THEN Put(store, t, [store[t] EXCEPT !.history = Append(@, msg),
                                        !.status = TaskStatus(SUBMITTED, Null, now)])
    ELSE Put(store, t, [status    |-> TaskStatus(SUBMITTED, Null, now),
                        artifacts |-> <<>>,
                        history   |-> <<msg>>])

\* upsert that creates the task whether or not the id is known: a second
\* upsert of the same id replaces the task the first one created
upsert_task_recreating(store, t, msg, now) ==
    Put(store, t, [status    |-> TaskStatus(SUBMITTED, Null, now),
                   artifacts |-> <<>>,
                   history   |-> <<msg>>])

\* upsert(id, initialMessage): create SUBMITTED with history [message], or
\* append the message and leave the status alone
upsert_task(store, t, msg, now) ==
    IF t \in DOMAIN store
    THEN Put(store, t, [store[t] EXCEPT !.history = Append(@, msg)])
    ELSE Put(store, t, [status    |-> TaskStatus(SUBMITTED, Null, now),
                        artifacts |-> <<>>,
                        history   |-> <<msg>>])

\* updateState guarding terminal states: a task stored as COMPLETED, CANCELED,
\* REJECTED or FAILED keeps its status and its artifacts
update_store_protecting(store, t, status, artifacts) ==
    IF store[t].status.state \in TerminalStates
    THEN store
    ELSE Put(store, t, [store[t] EXCEPT !.status = status,
                                        !.artifacts = @ \o artifacts])

\* updateState(id, newStatus, newArtifacts?): replace status, append artifacts
update_store(store, t, status, artifacts) ==
    Put(store, t, [store[t] EXCEPT !.status = status,
                                   !.artifacts = @ \o artifacts])

\* get(id, historyLimit?) / append_task_history: a snapshot whose history is
\* cut to the most recent N entries; the stored task is not touched
append_task_history(task, historyLength) ==
    IF historyLength = HistNone
    THEN task
    ELSE [task EXCEPT !.history = LastN(@, historyLength)]

\* ----------------------------------------------------------------- requests
Absent == "absent"          \* the JSON object has no such member

\* A request: the decoded body of a POST, or the typed request object a handler
\* is called with.  shape: what request.json() meets; pshape: whether params
\* fits the method's model ("null": params is JSON null); task: params.id or
\* params.message.taskId; modes/push/hist: TaskSendParams.acceptedOutputModes,
\* .pushNotification and .historyLength
Request(method, id, task) ==
    [shape |-> "dict", id |-> id, method |-> method, pshape |-> "ok",
     task |-> task, text |-> "Hello", modes |-> "ok", push |-> "none",
     hist |-> HistNone]

\* what an agent call produces: a result dict, or an exception
AgentResults ==
    [raises : {FALSE}, is_task_complete : BOOLEAN,
     require_user_input : BOOLEAN, content : Texts]
AgentRaises ==
    [raises |-> TRUE, is_task_complete |-> FALSE,
     require_user_input |-> FALSE, content |-> "Hi"]
AgentOutcomes == AgentResults \cup {AgentRaises}
NoAgent ==
    [raises |-> FALSE, is_task_complete |-> FALSE,
     require_user_input |-> FALSE, content |-> Null]

\* the agent outcomes tried on the paths that write the store
StoreOutcomes == {a \in AgentOutcomes : a.content = "Hi"}

ErrText == "Error"          \* f"Error: {str(e)}"

\* ----------------------------------------------------------------- outcomes
\* What a handler call ends in: a JSON-RPC response, an exception that leaves
\* the handler, or an event stream handed to the transport
NoResp == [id |-> Null, result |-> NoResult, error |-> NoError]

Raised(exc) == [out |-> "raise", resp |-> NoResp, exc |-> exc]

\* constructing a JSONRPCResponse runs its validator, which raises on failure
Returned(r) ==
    IF validate_result_or_error(r)
    THEN [out |-> "response", resp |-> r, exc |-> Null]
    ELSE Raised("ValidationError")

Streamed == [out |-> "stream", resp |-> NoResp, exc |-> Null]

\* ------------------------------------------------- CLIAgentTaskManager (sync)
\* on_a2a_message_send with the except branch raising the agent's error again
\* as ValueError, the way on_send_task does, instead of returning a FAILED task
on_a2a_message_send_reraise(req, agent) ==
    IF agent.raises THEN Raised("ValueError")
    ELSE Returned(JSONRPCResponse(req.id,
             [tag |-> "task", id |-> IF req.task = Null THEN Uuid ELSE req.task,
              state |-> IF agent.is_task_complete THEN COMPLETED
                        ELSE INPUT_REQUIRED,
              message |-> IF agent.is_task_complete THEN Null ELSE agent.content,
              artifacts |-> IF agent.is_task_complete THEN <<agent.content>>
                            ELSE <<>>,
              history |-> <<>>],
             NoError))

\* on_a2a_message_send (the second definition, which replaces the first):
\* the agent is invoked directly, the task store is not involved
on_a2a_message_send(req, agent) ==
    LET task_id == IF req.task = Null THEN Uuid ELSE req.task
        result ==
            IF agent.raises
            THEN [tag |-> "task", id |-> task_id, state |-> FAILED,
                  message |-> ErrText, artifacts |-> <<>>, history |-> <<>>]
            ELSE IF agent.is_task_complete
            THEN [tag |-> "task", id |-> task_id, state |-> COMPLETED,
                  message |-> Null, artifacts |-> <<agent.content>>,
                  history |-> <<>>]
            ELSE [tag |-> "task", id |-> task_id, state |-> INPUT_REQUIRED,
                  message |-> agent.content, artifacts |-> <<>>,
                  history |-> <<>>]
    IN  Returned(JSONRPCResponse(req.id, result, NoError))

\* --------------------------------------------------------- A2AServer (router)
\* _handle_exception with the response written out by hand, not built through
\* JSONRPCResponse, and the error member left out for an unexpected exception
_handle_exception_unvalidated(exc) ==
    [out |-> "response", exc |-> Null,
     resp |-> [id |-> Null, result |-> NoResult,
               error |-> IF exc = "JSONDecodeError" THEN PARSE_ERROR
                         ELSE IF exc = "ValidationError" THEN INVALID_REQUEST
                         ELSE NoError]]

\* server.py _handle_exception: the error is chosen by the exception's class;
\* the response id is always None
_handle_exception(exc) ==
    Returned(JSONRPCResponse(Null, NoResult,
        IF exc = "JSONDecodeError" THEN PARSE_ERROR
        ELSE IF exc = "ValidationError" THEN INVALID_REQUEST
        ELSE INTERNAL_ERROR))

\* server.py _process_request, lines 168 and 204: the names imported inside the
\* function (A2AMessageSendRequest, JSONRPCResponse, InvalidRequestError, ...)
\* are local to the whole function and bound only once that import has run.
\* Line 168 runs on the message/send branch only; line 204 only in that
\* branch's except clause.
BoundAtLine228(body) == body.method = "message/send"
BoundAtLine219(body) == FALSE

\* server.py lines 166-211: the manual parse of message/send.  The A2AMessage is
\* built from role, parts and messageId only: taskId and contextId of the
\* incoming message are not copied.  The request id is body.get('id', 'auto').
ManualParse(body) ==
    [body EXCEPT !.task = Null,
                 !.id = IF body.id = Absent THEN AutoId ELSE body.id]

\* body.get('id')
BodyId(body) == IF body.id = Absent THEN Null ELSE body.id

\* server.py lines 151-224: what happens before the dispatch chain.
\* "dispatch": a typed request reached line 226; otherwise the outcome.
Parse(body) ==
    IF body.shape = "notjson" THEN Raised("JSONDecodeError")
    ELSE IF body.shape = "notdict" THEN Raised("AttributeError")
    ELSE IF body.pshape = "null" THEN Raised("AttributeError")
    ELSE IF body.method = "message/send"
    THEN IF body.pshape = "ok"
         THEN [out |-> "dispatch", resp |-> NoResp, exc |-> Null]
         ELSE Returned(JSONRPCResponse(BodyId(body), NoResult, INVALID_REQUEST))
    ELSE IF body.method \in MethodNames /\ body.pshape = "ok"
    THEN [out |-> "dispatch", resp |-> NoResp, exc |-> Null]
    ELSE IF BoundAtLine219(body)
         THEN Returned(JSONRPCResponse(BodyId(body), NoResult, INVALID_REQUEST))
         ELSE Raised("UnboundLocalError")

\* server.py imports: the request classes the module binds at its top.
\* A2AMessageStreamRequest, read at line 232, is not among them.
ModuleImports == {"tasks/get", "tasks/send", "tasks/sendSubscribe",
                  "tasks/cancel", "tasks/pushNotification/set",
                  "tasks/pushNotification/get", "tasks/resubscribe"}

\* server.py lines 228-261: the isinstance chain, as the name of the handler
\* called or of the exception raised.  Its first test reads the local name
\* A2AMessageSendRequest, its second the name A2AMessageStreamRequest.
Dispatch(body) ==
    IF ~BoundAtLine228(body) THEN "UnboundLocalError"
    ELSE IF body.method = "message/send" THEN "on_a2a_message_send"
    ELSE IF "message/stream" \notin ModuleImports THEN "NameError"
    ELSE IF body.method = "message/stream" THEN "on_a2a_message_send"
    ELSE IF body.method = "tasks/get" THEN "on_get_task"
    ELSE IF body.method = "tasks/send" THEN "on_send_task"
    ELSE IF body.method = "tasks/sendSubscribe" THEN "on_send_task_subscribe"
    ELSE IF body.method = "tasks/cancel" THEN "on_cancel_task"
    ELSE IF body.method = "tasks/pushNotification/set"
    THEN "on_set_task_push_notification"
    ELSE IF body.method = "tasks/pushNotification/get"
    THEN "on_get_task_push_notification"
    ELSE IF body.method = "tasks/resubscribe" THEN "on_resubscribe_to_task"
    ELSE "ValueError"

\* server.py lines 263-266 and _create_response: a handler's response is sent
\* as it is, an exception goes through _handle_exception
Finish(via, o) ==
    IF via = "http" /\ o.out = "raise" THEN _handle_exception(o.exc) ELSE o

\* the call that ends in this step, with what the agent did in it and what
\* the callback url's owner answered to the challenge ("none": not asked)
Exchange(via, req, o, agent, verified) ==
    last' = [via |-> via, req |-> req, agent |-> agent, verified |-> verified,
             out |-> Finish(via, o).out, resp |-> Finish(via, o).resp,
             exc |-> Finish(via, o).exc]

DeliverAgent(via, req, o, agent) == Exchange(via, req, o, agent, "none")

DeliverVerified(via, req, o, is_verified) ==
    Exchange(via, req, o, NoAgent, IF is_verified THEN "yes" ELSE "no")

\* the call that ends in this step; neither agent nor callback url was asked
Deliver(via, req, o) == Exchange(via, req, o, NoAgent, "none")

\* a step in which no call ends
NoExchange ==
    [via |-> "none", req |-> Request(Null, Absent, "T1"), agent |-> NoAgent,
     verified |-> "none", out |-> "none", resp |-> NoResp, exc |-> Null]

Silent == last' = NoExchange

\* ------------------------------------------------------------- the Agent Card
\* server.py A2AServer.__init__: self.agent_card is set at construction and
\* assigned nowhere else.  custom_types.py AgentCard: the fields told apart
\* here, the optional ones (iconUrl, documentationUrl) left at None
agent_card ==
    [name |-> "agent", description |-> "an agent", url |-> "http://agent",
     version |-> "1.0.0", protocolVersion |-> "0.2.9",
     iconUrl |-> Null, documentationUrl |-> Null]

\* model_dump(exclude_none=True): the fields whose value is not None
model_dump(m) == [f \in {g \in DOMAIN m : m[g] # Null} |-> m[f]]

\* server.py lines 121-133: the two GET routes
CardPaths == {"/.well-known/agent.json", "/.well-known/agent-card.json"}

\* _get_agent_card serving a card whose version tells whether the server has
\* stored a task yet
_get_agent_card_counting(path) ==
    [tag |-> "card",
     card |-> model_dump([agent_card EXCEPT
                  !.version = IF DOMAIN tasks = {} THEN "1.0.0" ELSE "1.0.1"])]

\* server.py _get_agent_card, the handler of both routes
_get_agent_card(path) == [tag |-> "card", card |-> model_dump(agent_card)]

\* ------------------------------------------------ store and registry handlers
Urls == {"u1", "u2"}        \* callback urls; "emptyurl" is url == ""

\* tasks/get: TaskStore.get
OnGetTask(via, req) ==
    /\ Deliver(via, req,
         IF req.task \in DOMAIN tasks
         THEN Returned(JSONRPCResponse(req.id,
                  TaskResult(req.task,
                             append_task_history(tasks[req.task], req.hist)),
                  NoError))
         ELSE Returned(JSONRPCResponse(req.id, NoResult, TASK_NOT_FOUND)))
    /\ UNCHANGED <<tasks, push_infos, subscribers, producers, inflight,
                   clock>> /\ Quiet

\* cancel(id): CANCELED only from a non-terminal state
cancel(store, t, now) ==
    IF store[t].status.state \in TerminalStates
    THEN store
    ELSE update_store(store, t, TaskStatus(CANCELED, Null, now), <<>>)

\* tasks/cancel: TaskStore.cancel
OnCancelTask(via, req) ==
    /\ tasks' = IF req.task \in DOMAIN tasks
                THEN cancel(tasks, req.task, clock) ELSE tasks
    /\ Deliver(via, req,
         IF req.task \notin DOMAIN tasks
         THEN Returned(JSONRPCResponse(req.id, NoResult, TASK_NOT_FOUND))
         ELSE IF tasks[req.task].status.state \in TerminalStates
         THEN Returned(JSONRPCResponse(req.id, NoResult, TASK_NOT_CANCELABLE))
         ELSE Returned(JSONRPCResponse(req.id,
                  TaskResult(req.task, cancel(tasks, req.task, clock)[req.task]),
                  NoError)))
    /\ UNCHANGED <<push_infos, subscribers, producers, inflight, clock>> /\ Quiet

\* set_push_notification_info storing the url without looking at the answer
\* of verify_push_notification_url
set_push_notification_info_unverified(infos, t, url, is_verified) ==
    Put(infos, t, url)

\* base_cli_task_manager.py set_push_notification_info: the url is stored only
\* after verify_push_notification_url answered true
set_push_notification_info(infos, t, url, is_verified) ==
    IF ~is_verified THEN infos ELSE Put(infos, t, url)

\* tasks/pushNotification/set: url present, then register
OnSetPush(via, req, is_verified) ==
    /\ push_infos' =
         IF req.push \in Urls
         THEN set_push_notification_info(push_infos, req.task, req.push, is_verified)
         ELSE push_infos
    /\ IF req.push \notin Urls
       THEN Deliver(via, req,
                Returned(JSONRPCResponse(req.id, NoResult, INVALID_PARAMS)))
       ELSE DeliverVerified(via, req,
                IF is_verified
                THEN Returned(JSONRPCResponse(req.id,
                         [tag |-> "config", task |-> req.task, url |-> req.push],
                         NoError))
                ELSE Returned(JSONRPCResponse(req.id, NoResult, INVALID_PARAMS)),
                is_verified)
    /\ UNCHANGED <<tasks, subscribers, producers, inflight, clock>> /\ Quiet

\* tasks/pushNotification/get: the registered config, or absent
OnGetPush(via, req) ==
    /\ Deliver(via, req,
         Returned(JSONRPCResponse(req.id,
             [tag |-> "config", task |-> req.task,
              url |-> IF req.task \in DOMAIN push_infos
                      THEN push_infos[req.task] ELSE Null],
             NoError)))
    /\ UNCHANGED <<tasks, push_infos, subscribers, producers, inflight,
                   clock>> /\ Quiet

\* send_task_notification firing only once the task has left WORKING
send_task_notification_settled(log, infos, t, state) ==
    IF t \in DOMAIN infos /\ state # WORKING
    THEN Append(log, <<t, state>>) ELSE log

\* base_cli_task_manager.py send_task_notification: one attempt if the task
\* has a registered config
send_task_notification(log, infos, t, state) ==
    IF t \in DOMAIN infos THEN Append(log, <<t, state>>) ELSE log

\* ------------------------------------------------------ tasks/send (handler)
\* custom_types.py lines 429-444: InvalidParamsError.__init__ and
\* InternalError.__init__ take (self, data=None) and nothing else
ErrorInitParams == {"data"}

\* a response carrying an error built with the given keyword arguments
ErrorResponse(id, code, passed) ==
    IF passed \subseteq ErrorInitParams
    THEN Returned(JSONRPCResponse(id, NoResult, code))
    ELSE Raised("TypeError")

Proceed == [out |-> "ok", resp |-> NoResp, exc |-> Null]

\* base_cli_task_manager.py _validate_request
_validate_request(req) ==
    IF req.modes # "ok"
    THEN Returned(JSONRPCResponse(req.id, NoResult, CONTENT_TYPE_NOT_SUPPORTED))
    ELSE IF req.push = "emptyurl"
    THEN ErrorResponse(req.id, INVALID_PARAMS, {"message"})
    ELSE Proceed

\* base_cli_task_manager.py on_send_task, lines 265-278: what ends the call
\* before the store is touched
SendTaskRejected(req, is_verified) ==
    IF _validate_request(req).out # "ok" THEN _validate_request(req)
    ELSE IF req.push \in Urls /\ ~is_verified
    THEN ErrorResponse(req.id, INVALID_PARAMS, {"message"})
    ELSE Proceed

\* the store takes MaxHistory messages in all
RECURSIVE Stored(_)
Stored(T) ==
    IF T = {} THEN 0
    ELSE LET t == CHOOSE x \in T : TRUE
         IN  Len(tasks[t].history) + Stored(T \ {t})

RoomFor(t) == Stored(DOMAIN tasks) < MaxHistory

\* base_cli_task_manager.py on_send_task up to the await of agent.invoke_async
OnSendTask(via, req, is_verified) ==
    /\ RoomFor(req.task)
    /\ [via |-> via, req |-> req] \notin inflight
    /\ LET rej == SendTaskRejected(req, is_verified) IN
       IF rej.out # "ok"
       THEN /\ IF _validate_request(req).out = "ok"
               THEN DeliverVerified(via, req, rej, is_verified)
               ELSE Deliver(via, req, rej)
            /\ UNCHANGED <<tasks, push_infos, subscribers, producers,
                           inflight, clock>> /\ Quiet
       ELSE /\ push_infos' =
                 IF req.push \in Urls
                 THEN set_push_notification_info(push_infos, req.task,
                                                 req.push, is_verified)
                 ELSE push_infos
            /\ tasks' = update_store(
                            upsert_task(tasks, req.task, req.text, clock),
                            req.task, TaskStatus(WORKING, Null, clock), <<>>)
            /\ notified' = send_task_notification(<<>>, push_infos',
                                                  req.task, WORKING)
            /\ inflight' = inflight \cup {[via |-> via, req |-> req]}
            /\ Silent
            /\ UNCHANGED <<subscribers, producers, clock>>

\* _process_agent_response stamping the status with a time fixed when the
\* process started instead of the time of the write
AgentStatus_stale(agent, now) ==
    IF agent.require_user_input
    THEN TaskStatus(INPUT_REQUIRED, agent.content, 0)
    ELSE TaskStatus(COMPLETED, Null, 0)

\* _process_agent_response looking at is_task_complete first: an answer that
\* sets both flags is stored as COMPLETED
AgentStatus_completing(agent, now) ==
    IF agent.is_task_complete \/ ~agent.require_user_input
    THEN TaskStatus(COMPLETED, Null, now)
    ELSE TaskStatus(INPUT_REQUIRED, agent.content, now)

\* base_cli_task_manager.py _process_agent_response: the status the agent's
\* answer is turned into
AgentStatus(agent, now) ==
    IF agent.require_user_input
    THEN TaskStatus(INPUT_REQUIRED, agent.content, now)
    ELSE TaskStatus(COMPLETED, Null, now)

AgentArtifacts(agent) ==
    IF agent.require_user_input THEN <<>> ELSE <<agent.content>>

\* _process_agent_response cutting the history of the stored task itself to
\* historyLength instead of cutting a copy for the answer
SendTaskReturn_truncating(c, agent) ==
    /\ c \in inflight
    /\ inflight' = inflight \ {c}
    /\ IF agent.raises
       THEN /\ DeliverAgent(c.via, c.req, Raised("ValueError"), agent)
            /\ UNCHANGED tasks /\ Quiet
       ELSE /\ tasks' = Put(tasks, c.req.task,
                     append_task_history(
                         update_store(tasks, c.req.task,
                                      AgentStatus(agent, clock),
                                      AgentArtifacts(agent))[c.req.task],
                         c.req.hist))
            /\ notified' = send_task_notification(<<>>, push_infos,
                               c.req.task, AgentStatus(agent, clock).state)
            /\ DeliverAgent(c.via, c.req,
                 Returned(JSONRPCResponse(c.req.id,
                     TaskResult(c.req.task, tasks'[c.req.task]),
                     NoError)), agent)
    /\ UNCHANGED <<push_infos, subscribers, producers, clock>>

\* on_send_task writing back, with the agent's answer, the artifacts it knows
\* of itself: what a stream producer added to the task meanwhile is dropped
SendTaskReturn_clobbering(c, agent) ==
    /\ c \in inflight
    /\ inflight' = inflight \ {c}
    /\ IF agent.raises
       THEN /\ DeliverAgent(c.via, c.req, Raised("ValueError"), agent)
            /\ UNCHANGED tasks /\ Quiet
       ELSE /\ tasks' = Put(tasks, c.req.task,
                     [tasks[c.req.task] EXCEPT
                          !.status = AgentStatus(agent, clock),
                          !.artifacts = AgentArtifacts(agent)])
            /\ notified' = send_task_notification(<<>>, push_infos,
                               c.req.task, AgentStatus(agent, clock).state)
            /\ DeliverAgent(c.via, c.req,
                 Returned(JSONRPCResponse(c.req.id,
                     TaskResult(c.req.task,
                         append_task_history(tasks'[c.req.task], c.req.hist)),
                     NoError)), agent)
    /\ UNCHANGED <<push_infos, subscribers, producers, clock>>

\* _process_agent_response returning the stored task as it is, with its whole
\* history, whatever historyLength the request carries
SendTaskReturn_unlimited(c, agent) ==
    /\ c \in inflight
    /\ inflight' = inflight \ {c}
    /\ IF agent.raises
       THEN /\ DeliverAgent(c.via, c.req, Raised("ValueError"), agent)
            /\ UNCHANGED tasks /\ Quiet
       ELSE /\ tasks' = update_store(tasks, c.req.task,
                                     AgentStatus(agent, clock),
                                     AgentArtifacts(agent))
            /\ notified' = send_task_notification(<<>>, push_infos,
                               c.req.task, AgentStatus(agent, clock).state)
            /\ DeliverAgent(c.via, c.req,
                 Returned(JSONRPCResponse(c.req.id,
                     TaskResult(c.req.task, tasks'[c.req.task]),
                     NoError)), agent)
    /\ UNCHANGED <<push_infos, subscribers, producers, clock>>

\* on_send_task from the return of agent.invoke_async: an exception is raised
\* again as ValueError, a result goes through _process_agent_response
SendTaskReturn(c, agent) ==
    /\ c \in inflight
    /\ inflight' = inflight \ {c}
    /\ IF agent.raises
       THEN /\ DeliverAgent(c.via, c.req, Raised("ValueError"), agent)
            /\ UNCHANGED tasks /\ Quiet
       ELSE /\ tasks' = update_store(tasks, c.req.task,
                                     AgentStatus(agent, clock),
                                     AgentArtifacts(agent))
            /\ notified' = send_task_notification(<<>>, push_infos,
                               c.req.task, AgentStatus(agent, clock).state)
            /\ DeliverAgent(c.via, c.req,
                 Returned(JSONRPCResponse(c.req.id,
                     TaskResult(c.req.task,
                         append_task_history(tasks'[c.req.task], c.req.hist)),
                     NoError)), agent)
    /\ UNCHANGED <<push_infos, subscribers, producers, clock>>

\* ------------------------------------------------------------------ SSE hub
MaxConsumers == 2   \* consumers attached to one task at most

\* subscribe(taskId): attach a new, empty consumer queue; the first attachment
\* registers the task with the hub
setup_sse_consumer(subs, t) ==
    IF t \in DOMAIN subs
    THEN Put(subs, t, Append(subs[t], <<>>))
    ELSE Put(subs, t, << <<>> >>)

\* publish(taskId, event): one copy for every consumer attached right now
enqueue_events_for_sse(subs, t, ev) ==
    IF t \in DOMAIN subs
    THEN Put(subs, t, [i \in DOMAIN subs[t] |-> Append(subs[t][i], ev)])
    ELSE subs

\* closeConsumer(consumerHandle): the i-th consumer of the task is taken out
\* of the hub; the other queues stay as they are
closeConsumer(subs, t, i) ==
    Put(subs, t, SubSeq(subs[t], 1, i - 1) \o SubSeq(subs[t], i + 1, Len(subs[t])))

\* custom_types.py TaskStatusUpdateEvent / TaskArtifactUpdateEvent: taskId and
\* contextId have no default, so a construction that does not pass them fails
\* validation
EventRequired == {"taskId", "contextId"}

EventInitOK(passed) == EventRequired \subseteq passed

\* base_cli_task_manager.py lines 214 and 221: the keyword arguments the
\* producer passes
ArtifactEventArgs == {"id", "artifact"}
StatusEventArgs   == {"id", "status", "final"}

\* -------------------------------------------------------- streaming producer
StreamItems ==
    [raises : {FALSE}, is_task_complete : BOOLEAN,
     require_user_input : BOOLEAN, content : {"Hi"}]

\* the producer's mapping looking at is_task_complete first: an item that
\* sets both flags is taken as COMPLETED
ItemState_completing(item) ==
    IF item.is_task_complete THEN COMPLETED
    ELSE IF item.require_user_input THEN INPUT_REQUIRED
    ELSE WORKING

\* base_cli_task_manager.py _run_streaming_agent lines 193-203
ItemState(item) ==
    IF ~item.is_task_complete /\ ~item.require_user_input THEN WORKING
    ELSE IF item.require_user_input THEN INPUT_REQUIRED
    ELSE COMPLETED

ItemFinal(item) == ItemState(item) # WORKING

ItemStatus(item, now) ==
    TaskStatus(ItemState(item),
               IF ItemState(item) = COMPLETED THEN Null ELSE item.content, now)

ItemArtifacts(item) ==
    IF ItemState(item) = COMPLETED THEN <<item.content>> ELSE <<>>

\* lines 213-226: the events of one item, in the order they are enqueued; the
\* empty sequence with ok = FALSE if a construction raised before any enqueue
ItemEvents(item) ==
    LET art == [kind |-> "artifact", state |-> ItemState(item),
                final |-> FALSE, text |-> item.content]
        st  == [kind |-> "status", state |-> ItemState(item),
                final |-> ItemFinal(item), text |-> item.content]
    IN  IF ItemState(item) = COMPLETED
        THEN IF ~EventInitOK(ArtifactEventArgs)
             THEN [ok |-> FALSE, events |-> <<>>]
             ELSE IF ~EventInitOK(StatusEventArgs)
             THEN [ok |-> FALSE, events |-> <<art>>]
             ELSE [ok |-> TRUE, events |-> <<art, st>>]
        ELSE IF ~EventInitOK(StatusEventArgs)
             THEN [ok |-> FALSE, events |-> <<>>]
             ELSE [ok |-> TRUE, events |-> <<st>>]

RECURSIVE PublishAll(_, _, _)
PublishAll(subs, t, evs) ==
    IF evs = <<>> THEN subs
    ELSE PublishAll(enqueue_events_for_sse(subs, t, Head(evs)), t, Tail(evs))

\* lines 228-235: the except branch builds InternalError(message=...) and
\* enqueues it; if that construction raises, the exception leaves the task
ErrorEvent == [kind |-> "error", state |-> Null, final |-> FALSE, text |-> ErrText]

ExceptBranchOK == {"message"} \subseteq ErrorInitParams

\* -------------------------------------------------- tasks/sendSubscribe etc.
Attached(t) == IF t \in DOMAIN subscribers THEN Len(subscribers[t]) ELSE 0

\* base_cli_task_manager.py on_send_task_subscribe lines 417-425 and
\* on_resubscribe_to_task lines 479-486: the except clause answers with
\* InternalError(message=...)
ExceptInternalError(req, o) ==
    IF o.out = "raise" THEN ErrorResponse(req.id, INTERNAL_ERROR, {"message"})
    ELSE o

\* base_cli_task_manager.py on_send_task_subscribe
OnSendTaskSubscribe(via, req, is_verified) ==
    /\ RoomFor(req.task)
    /\ Len(producers) < MaxStreams
    /\ Attached(req.task) < MaxConsumers
    /\ IF _validate_request(req).out # "ok"
       THEN /\ Deliver(via, req, ExceptInternalError(req, _validate_request(req)))
            /\ UNCHANGED <<tasks, push_infos, subscribers, producers,
                           inflight, clock>> /\ Quiet
       ELSE /\ tasks' = upsert_task(tasks, req.task, req.text, clock)
            /\ IF req.push \in Urls /\ ~is_verified
               THEN /\ DeliverVerified(via, req, ExceptInternalError(req,
                           ErrorResponse(req.id, INVALID_PARAMS, {"message"})),
                           is_verified)
                    /\ UNCHANGED <<push_infos, subscribers, producers>>
               ELSE /\ push_infos' =
                         IF req.push \in Urls
                         THEN set_push_notification_info(push_infos, req.task,
                                                         req.push, is_verified)
                         ELSE push_infos
                    /\ subscribers' = setup_sse_consumer(subscribers, req.task)
                    /\ producers' = Append(producers,
                           [task |-> req.task, yielded |-> <<>>,
                            pc |-> "running"])
                    /\ Deliver(via, req, Streamed)
            /\ UNCHANGED <<inflight, clock>> /\ Quiet

\* base_cli_task_manager.py _run_streaming_agent: one turn of the async for
\* loop, up to the next await of the agent.  y is what the agent does: it
\* yields an item, raises (AgentRaises), or ends the stream (StreamEnd)
StreamEnd ==
    [raises |-> FALSE, is_task_complete |-> FALSE,
     require_user_input |-> FALSE, content |-> "end"]

ProducerStep(p, y) ==
    /\ p \in DOMAIN producers
    /\ producers[p].pc = "running"
    /\ y \in StreamItems => Len(producers[p].yielded) < MaxItems
    /\ LET t == producers[p].task
       IN  IF y = StreamEnd
           THEN /\ producers' = [producers EXCEPT ![p].pc = "done"]
                /\ UNCHANGED <<tasks, subscribers>> /\ Quiet
           ELSE IF y = AgentRaises
           THEN /\ IF ExceptBranchOK
                   THEN /\ subscribers' =
                             enqueue_events_for_sse(subscribers, t, ErrorEvent)
                        /\ producers' = [producers EXCEPT ![p].pc = "done"]
                   ELSE /\ producers' = [producers EXCEPT ![p].pc = "crashed"]
                        /\ UNCHANGED subscribers
                /\ UNCHANGED tasks /\ Quiet
           ELSE LET evs == ItemEvents(y)
                    pub == PublishAll(subscribers, t, evs.events)
                IN  /\ tasks' = update_store(tasks, t, ItemStatus(y, clock),
                                             ItemArtifacts(y))
                    /\ notified' = send_task_notification(<<>>, push_infos,
                                                          t, ItemState(y))
                    /\ IF evs.ok
                       THEN /\ subscribers' = pub
                            /\ producers' =
                                 [producers EXCEPT ![p].yielded = Append(@, y)]
                       ELSE IF ExceptBranchOK
                       THEN /\ subscribers' =
                                 enqueue_events_for_sse(pub, t, ErrorEvent)
                            /\ producers' =
                                 [producers EXCEPT ![p].yielded = Append(@, y),
                                                   ![p].pc = "done"]
                       ELSE /\ subscribers' = pub
                            /\ producers' =
                                 [producers EXCEPT ![p].yielded = Append(@, y),
                                                   ![p].pc = "crashed"]
    /\ Silent
    /\ UNCHANGED <<push_infos, inflight, clock>>

\* on_resubscribe_to_task clearing the hub when it fails: the consumers of
\* every task are dropped with the request that could not be served
OnResubscribe_teardown(via, req) ==
    /\ Attached(req.task) < MaxConsumers
    /\ IF req.task \in DOMAIN subscribers
       THEN /\ subscribers' = setup_sse_consumer(subscribers, req.task)
            /\ Deliver(via, req, Streamed)
       ELSE /\ Deliver(via, req, ExceptInternalError(req, Raised("ValueError")))
            /\ subscribers' = EmptyMap
    /\ UNCHANGED <<tasks, push_infos, producers, inflight, clock>> /\ Quiet

\* base_cli_task_manager.py on_resubscribe_to_task; subscribing to a task the
\* hub does not hold raises inside the try
OnResubscribe(via, req) ==
    /\ Attached(req.task) < MaxConsumers
    /\ IF req.task \in DOMAIN subscribers
       THEN /\ subscribers' = setup_sse_consumer(subscribers, req.task)
            /\ Deliver(via, req, Streamed)
       ELSE /\ Deliver(via, req, ExceptInternalError(req, Raised("ValueError")))
            /\ UNCHANGED subscribers
    /\ UNCHANGED <<tasks, push_infos, producers, inflight, clock>> /\ Quiet

\* --------------------------------------------------------------- the inputs
MaxInflight == 1    \* tasks/send calls waiting for the agent at once

\* typed requests a handler is called with
TaskRequests(method) ==
    {Request(method, i, t) : i \in ReqIds, t \in TaskIds}

QueryRequests(method) ==
    {[r EXCEPT !.hist = h] : r \in TaskRequests(method), h \in {HistNone, 1}}

\* request r1 carries the text "Hello", r2 the text "more"
TextOf(i) == IF i = "r1" THEN "Hello" ELSE "more"

\* sends that pass validation and carry no push configuration
PlainSends(method) ==
    {[r EXCEPT !.text = TextOf(r.id)] : r \in TaskRequests(method)}

\* sends with a push configuration, with or without a url
PushSends(method) ==
    {[r EXCEPT !.push = pu] : r \in PlainSends(method), pu \in {"emptyurl", "u1"}}

\* POSTs of the streaming methods and of tasks/get
StreamBodies ==
    {Request(m, "r1", t) :
        m \in {"tasks/sendSubscribe", "tasks/resubscribe", "tasks/get"},
        t \in TaskIds}

\* POSTs of the push-notification methods
PushBodies ==
    {[Request(m, "r1", t) EXCEPT !.push = "u1"] :
        m \in {"tasks/pushNotification/set", "tasks/pushNotification/get"},
        t \in TaskIds}

\* sends whose accepted output modes the agent does not support
ModeSends(method) ==
    {[r EXCEPT !.modes = "incompatible"] : r \in PlainSends(method)}

\* sends that ask for the last message of the history only
HistSends(method) ==
    {[r EXCEPT !.hist = 1] : r \in PlainSends(method)}

\* the sends the store is exercised with
StoreSends(method) == PlainSends(method) \cup HistSends(method)

\* the one send of request r1 for task T1
OneSend(method) ==
    {r \in PlainSends(method) : r.id = "r1" /\ r.task = "T1"}

\* tasks/cancel requests with id r1, for either task
CancelsR1 == {r \in TaskRequests("tasks/cancel") : r.id = "r1"}

\* sends that validation accepts and sends that it rejects
RejectSends(method) ==
    PlainSends(method) \cup PushSends(method) \cup ModeSends(method)

PushRequests ==
    {[r EXCEPT !.push = pu] :
        r \in TaskRequests("tasks/pushNotification/set"),
        pu \in Urls \cup {"emptyurl"}}

\* decoded bodies of POST /: bodies that are no JSON or no object; well-formed
\* requests of every method and of an unknown one; requests for both tasks and
\* with every id for three methods; requests whose params do not fit
CoreMethods == {"message/send", "tasks/get", "tasks/cancel"}

HttpBodies ==
    {[Request(Null, Absent, "T1") EXCEPT !.shape = sh] : sh \in {"notjson", "notdict"}}
    \cup
    {Request(m, "r1", "T1") : m \in MethodNames \cup {UnknownMethod}}
    \cup
    {Request(m, i, t) :
        m \in CoreMethods, i \in ReqIds \cup {Absent}, t \in TaskIds}
    \cup
    {Request(UnknownMethod, i, "T1") : i \in ReqIds \cup {Absent}}
    \cup
    {[Request(m, "r1", "T1") EXCEPT !.pshape = ps] :
        m \in {"message/send", "tasks/get"}, ps \in {"bad", "null"}}

\* the requests with id r1 for task t among a set of requests
RequestsFor(reqs, t) == {r \in reqs : r.id = "r1" /\ r.task = t}

\* POSTs that the router answers with an error: a body that is no JSON, and
\* tasks/get and tasks/cancel for task T1
ErrorBodies ==
    {[Request(Null, Absent, "T1") EXCEPT !.shape = "notjson"]}
    \cup
    {Request(m, "r1", "T1") : m \in {"tasks/get", "tasks/cancel"}}

\* ------------------------------------------------------------- host agent
MaxCalls == 3       \* send_message calls of the host that are told apart

\* str(uuid.uuid4()) in RemoteAgentConnection.send_message: the call-th call
\* draws values no earlier call and no remote agent has used
HostUuids == <<"h1", "h2", "h3", "h4", "h5", "h6", "h7", "h8", "h9", "h10">>
TaskUuid(call)    == HostUuids[2 * call - 1]
ContextUuid(call) == HostUuids[2 * call]

\* base_host_agent.py BaseHostAgent.__init__: the agents whose card was
\* retrieved, and the state dict
remote_agent_connections == {"agent"}
AgentNames == {"agent", "nobody"}

HostState0 ==
    [session_active |-> FALSE, context_id |-> Null, task_id |-> Null,
     active_agent |-> Null]

\* dict.get(key): None for a missing key
Get(d, key) == IF key \in DOMAIN d THEN d[key] ELSE Null

\* RemoteAgentConnection.send_message lines 57-75: the ids of the message
\* that is posted
Payload(context_id, task_id, call) ==
    [taskId    |-> IF task_id = Null THEN TaskUuid(call) ELSE task_id,
     contextId |-> IF context_id = Null THEN ContextUuid(call) ELSE context_id]

\* custom_types.py A2ATaskResponse and A2AMessageResponse as the remote agent
\* dumps them into the result member; on_a2a_message_send lines 310-311 takes
\* the ids of the message or draws its own
RemoteStates == {INPUT_REQUIRED, COMPLETED, FAILED}

A2ATaskResponse(id, contextId, state) ==
    [kind |-> "task", id |-> id, contextId |-> contextId,
     status |-> [state |-> state]]

A2AMessageResponse(contextId) ==
    [kind |-> "message", messageId |-> "m1", contextId |-> contextId]

RemoteError == [kind |-> "error"]

RemoteAnswers(payload) ==
    {A2ATaskResponse(id, c, s) :
        id \in {payload.taskId, "T1"}, c \in {payload.contextId, "ctx1"},
        s \in RemoteStates}
    \cup {A2AMessageResponse(payload.contextId), RemoteError}

\* BaseHostAgent.send_message lines 180-181
ResultState(result) ==
    IF "status" \in DOMAIN result THEN result.status.state ELSE UNKNOWN

\* BaseHostAgent.send_message lines 183-195: the state dict after a result
HostStateAfter(state, result) ==
    [state EXCEPT
        !.session_active =
            ResultState(result) \notin {COMPLETED, CANCELED, FAILED, UNKNOWN},
        !.task_id = IF Get(result, "id") # Null THEN result.id ELSE @,
        !.context_id =
            IF Get(result, "sessionId") # Null THEN result.sessionId ELSE @]

\* BaseHostAgent.send_message lines 197-223: what the call gives its caller
HostReturn(result) ==
    IF ResultState(result) \in {FAILED, CANCELED} THEN "RuntimeError"
    ELSE IF ResultState(result) = INPUT_REQUIRED THEN "input_required"
    ELSE IF ResultState(result) = COMPLETED THEN "completed"
    ELSE ResultState(result)

\* BaseHostAgent.send_message with RemoteAgentConnection.send_message
send_message(h, agent_name, answer) ==
    IF agent_name \notin remote_agent_connections
    THEN [h EXCEPT !.returned = "ValueError"]
    ELSE LET call == Len(h.posted) + 1
             payload == Payload(h.state.context_id, h.state.task_id, call)
             active == [h.state EXCEPT !.session_active = TRUE,
                                       !.active_agent = agent_name]
             sent == Append(h.posted, [taskId |-> payload.taskId,
                                       contextId |-> payload.contextId,
                                       answer |-> answer])
         IN  IF answer = RemoteError
             THEN [state |-> [active EXCEPT !.session_active = FALSE],
                   posted |-> sent, returned |-> "RuntimeError"]
             ELSE [state |->
                       IF HostReturn(answer) = "RuntimeError"
                       THEN [HostStateAfter(active, answer)
                                 EXCEPT !.session_active = FALSE]
                       ELSE HostStateAfter(active, answer),
                   posted |-> sent, returned |-> HostReturn(answer)]

\* -------------------------------------------------------- frame processor
BufferSize == 2     \* RealTimeFrameProcessor(buffer_size): frame_queue maxsize
NumWorkers == 2     \* RealTimeFrameProcessor(num_workers)

\* xr_frame_processor.py line 34
skip_frame_threshold == 2

PoolSize        == BufferSize * 2      \* line 43
ResultQueueSize == BufferSize * 2      \* line 28
Idle == 0                              \* a worker waiting in frame_queue.get

\* RealTimeFrameProcessor.__init__
Processor0 ==
    [running |-> FALSE,
     frame_buffer_pool |-> [b \in 1..PoolSize |-> FALSE],
     frame_queue |-> <<>>,
     result_queue |-> 0,
     consecutive_skips |-> 0,
     workers |-> [w \in 1..NumWorkers |-> Idle],
     returned |-> Null]

\* _get_buffer_from_pool: the first buffer not in use, or None
FreeBuffers(pr) == {b \in 1..PoolSize : ~pr.frame_buffer_pool[b]}

_get_buffer_from_pool(pr) ==
    IF FreeBuffers(pr) = {} THEN Null
    ELSE CHOOSE b \in FreeBuffers(pr) : \A c \in FreeBuffers(pr) : b <= c

\* _return_buffer_to_pool
_return_buffer_to_pool(pr, b) ==
    [pr EXCEPT !.frame_buffer_pool[b] = FALSE]

\* add_frame
add_frame(pr) ==
    IF Len(pr.frame_queue) = BufferSize
    THEN [pr EXCEPT
             !.consecutive_skips = @ + 1,
             !.frame_queue =
                 IF pr.consecutive_skips + 1 > skip_frame_threshold
                 THEN Tail(@) ELSE @,
             !.returned = "False"]
    ELSE IF FreeBuffers(pr) = {}
    THEN [pr EXCEPT !.consecutive_skips = 0, !.returned = "False"]
    ELSE [pr EXCEPT
             !.consecutive_skips = 0,
             !.frame_buffer_pool[_get_buffer_from_pool(pr)] = TRUE,
             !.frame_queue = Append(@, _get_buffer_from_pool(pr)),
             !.returned = "True"]

\* _worker_thread lines 82-86: a running worker takes the oldest frame
WorkerTakes(pr, w) ==
    [pr EXCEPT !.workers[w] = Head(pr.frame_queue),
               !.frame_queue = Tail(@)]

\* _worker_thread lines 88-101: the frame is processed, the result is put
\* and the buffer is returned
WorkerFinishes(pr, w) ==
    [_return_buffer_to_pool(pr, pr.workers[w])
        EXCEPT !.result_queue = @ + 1, !.workers[w] = Idle]

\* _worker_thread lines 105-106: _process_frame_internal raised; the
\* exception is printed and the loop goes on
WorkerRaises(pr, w) == [pr EXCEPT !.workers[w] = Idle]

\* ------------------------------------------------------------------ actions
Init ==
    /\ tasks = EmptyMap
    /\ push_infos = EmptyMap
    /\ subscribers = EmptyMap
    /\ producers = <<>>
    /\ inflight = {}
    /\ notified = <<>>
    /\ clock = 0
    /\ last = NoExchange
    /\ host = [state |-> HostState0, posted |-> <<>>, returned |-> Null]
    /\ processor = Processor0

\* time passes
Tick ==
    /\ clock < MaxClock
    /\ clock' = clock + 1
    /\ Silent
    /\ UNCHANGED <<tasks, push_infos, subscribers, producers, inflight>> /\ Quiet
    /\ ServerStep

\* server.py _process_request: one POST, from request.json() to the response
ProcessRequest(body) ==
    LET p == Parse(body)
        h == Dispatch(body)
        r == IF body.method = "message/send" THEN ManualParse(body) ELSE body
    IN  IF p.out # "dispatch"
        THEN /\ Deliver("http", body, p)
             /\ UNCHANGED <<tasks, push_infos, subscribers, producers,
                            inflight, clock>> /\ Quiet
        ELSE IF h = "on_a2a_message_send"
        THEN /\ \E agent \in AgentOutcomes :
                    DeliverAgent("http", body, on_a2a_message_send(r, agent), agent)
             /\ UNCHANGED <<tasks, push_infos, subscribers, producers,
                            inflight, clock>> /\ Quiet
        ELSE IF h = "on_get_task" THEN OnGetTask("http", r)
        ELSE IF h = "on_cancel_task" THEN OnCancelTask("http", r)
        ELSE IF h = "on_get_task_push_notification" THEN OnGetPush("http", r)
        ELSE IF h = "on_set_task_push_notification"
        THEN \E is_verified \in BOOLEAN : OnSetPush("http", r, is_verified)
        ELSE IF h = "on_resubscribe_to_task" THEN OnResubscribe("http", r)
        ELSE IF h = "on_send_task"
        THEN /\ Cardinality(inflight) < MaxInflight
             /\ \E is_verified \in BOOLEAN : OnSendTask("http", r, is_verified)
        ELSE IF h = "on_send_task_subscribe"
        THEN \E is_verified \in BOOLEAN : OnSendTaskSubscribe("http", r, is_verified)
        ELSE /\ Deliver("http", body, Raised(h))
             /\ UNCHANGED <<tasks, push_infos, subscribers, producers,
                            inflight, clock>> /\ Quiet

HttpRequest(bodies) ==
    /\ \E body \in bodies : ProcessRequest(body)
    /\ ServerStep

\* the task manager's handlers called in process
CallMessageSend ==
    \E r \in TaskRequests("message/send"), agent \in AgentOutcomes :
        /\ DeliverAgent("direct", r, on_a2a_message_send(r, agent), agent)
        /\ UNCHANGED <<tasks, push_infos, subscribers, producers, inflight,
                       clock>> /\ Quiet
        /\ ServerStep

CallGetTask ==
    /\ \E r \in QueryRequests("tasks/get") : OnGetTask("direct", r)
    /\ ServerStep

CallCancelTask ==
    /\ \E r \in TaskRequests("tasks/cancel") : OnCancelTask("direct", r)
    /\ ServerStep

\* tasks/get and tasks/cancel called in process with requests of a given set
GetTask(reqs) ==
    /\ \E r \in reqs : OnGetTask("direct", r)
    /\ ServerStep

CancelTask(reqs) ==
    /\ \E r \in reqs : OnCancelTask("direct", r)
    /\ ServerStep

CallSetPush ==
    /\ \E r \in PushRequests, is_verified \in BOOLEAN :
           OnSetPush("direct", r, is_verified)
    /\ ServerStep

CallGetPush ==
    /\ \E r \in TaskRequests("tasks/pushNotification/get") :
           OnGetPush("direct", r)
    /\ ServerStep

CallSendTask(reqs) ==
    \E r \in reqs, is_verified \in BOOLEAN :
        /\ Cardinality(inflight) < MaxInflight
        /\ OnSendTask("direct", r, is_verified)
        /\ ServerStep

AgentReturns ==
    /\ \E c \in inflight, agent \in StoreOutcomes : SendTaskReturn(c, agent)
    /\ ServerStep

CallSendTaskSubscribe(reqs) ==
    /\ \E r \in reqs, is_verified \in BOOLEAN :
           OnSendTaskSubscribe("direct", r, is_verified)
    /\ ServerStep

AgentYields ==
    /\ \E p \in DOMAIN producers,
          y \in StreamItems \cup {AgentRaises, StreamEnd} : ProducerStep(p, y)
    /\ ServerStep

CallResubscribe ==
    /\ \E r \in TaskRequests("tasks/resubscribe") : OnResubscribe("direct", r)
    /\ ServerStep

\* the client of one event stream disconnects: its consumer is detached
Disconnected(t) ==
    [NoExchange EXCEPT !.via = "disconnect", !.req = Request(Null, Absent, t)]

CloseConsumer ==
    \E t \in DOMAIN subscribers : \E i \in DOMAIN subscribers[t] :
        /\ subscribers' = closeConsumer(subscribers, t, i)
        /\ last' = Disconnected(t)
        /\ UNCHANGED <<tasks, push_infos, producers, inflight, clock>> /\ Quiet
        /\ ServerStep

\* GET of one of the two discovery routes
Discovery(path) == [Request("GET", Absent, "T1") EXCEPT !.text = path]

GetAgentCard ==
    \E path \in CardPaths :
        /\ last' = [NoExchange EXCEPT
                        !.via = "http", !.req = Discovery(path),
                        !.out = "response",
                        !.resp = [NoResp EXCEPT
                                      !.result = _get_agent_card(path)]]
        /\ UNCHANGED <<tasks, push_infos, subscribers, producers, inflight,
                       clock>> /\ Quiet
        /\ ServerStep

\* a step of the host agent or of the frame processor: the server stays as
\* it is
ServerIdle ==
    UNCHANGED <<tasks, push_infos, subscribers, producers, inflight, notified,
                clock, last>>

\* BaseHostAgent.send_message called with a registered or an unknown agent
\* name; the remote agent answers the message that is posted
HostSendMessage ==
    /\ Len(host.posted) < MaxCalls
    /\ \E agent_name \in AgentNames :
           \E answer \in RemoteAnswers(Payload(host.state.context_id,
                                               host.state.task_id,
                                               Len(host.posted) + 1)) :
               host' = send_message(host, agent_name, answer)
    /\ ServerIdle /\ UNCHANGED processor

\* RealTimeFrameProcessor.start_processing, once the threads of an earlier
\* run have ended
StartProcessing ==
    /\ ~processor.running
    /\ \A w \in 1..NumWorkers : processor.workers[w] = Idle
    /\ processor' = [processor EXCEPT !.running = TRUE]
    /\ ServerIdle /\ UNCHANGED host

\* RealTimeFrameProcessor.stop_processing
StopProcessing ==
    /\ processor.running
    /\ processor' = [processor EXCEPT !.running = FALSE]
    /\ ServerIdle /\ UNCHANGED host

\* RealTimeFrameProcessor.add_frame
AddFrame ==
    /\ processor' = add_frame(processor)
    /\ ServerIdle /\ UNCHANGED host

\* _worker_thread: frame_queue.get gives a frame to a waiting worker
WorkerTake ==
    /\ processor.running
    /\ processor.frame_queue # <<>>
    /\ \E w \in 1..NumWorkers :
           /\ processor.workers[w] = Idle
           /\ processor' = WorkerTakes(processor, w)
    /\ ServerIdle /\ UNCHANGED host

\* _worker_thread: result_queue.put waits while the result queue is full
WorkerFinish ==
    /\ processor.result_queue < ResultQueueSize
    /\ \E w \in 1..NumWorkers :
           /\ processor.workers[w] # Idle
           /\ processor' = WorkerFinishes(processor, w)
    /\ ServerIdle /\ UNCHANGED host

\* _worker_thread: _process_frame_internal raises
WorkerRaise ==
    /\ \E w \in 1..NumWorkers :
           /\ processor.workers[w] # Idle
           /\ processor' = WorkerRaises(processor, w)
    /\ ServerIdle /\ UNCHANGED host

\* RealTimeFrameProcessor.get_processed_frame taking a result
GetProcessedFrame ==
    /\ processor.result_queue > 0
    /\ processor' = [processor EXCEPT !.result_queue = @ - 1]
    /\ ServerIdle /\ UNCHANGED host

\* ----------------------------------------------------------- specifications
\* The server: every POST the router can meet, over a store that in-process
\* tasks/send and tasks/cancel calls have filled
Next ==
    \/ HttpRequest(HttpBodies)
    \/ CallSendTask(PlainSends("tasks/send"))
    \/ AgentReturns
    \/ CallCancelTask

Spec == Init /\ [][Next]_vars

\* Streaming: tasks/sendSubscribe, its background producer, consumers that
\* attach later, and tasks/get reading the store meanwhile
NextStream ==
    \/ CallSendTaskSubscribe(PlainSends("tasks/sendSubscribe"))
    \/ AgentYields
    \/ CallResubscribe
    \/ CallGetTask
    \/ HttpRequest(StreamBodies)
    \/ Tick

SpecStream == Init /\ [][NextStream]_vars

\* Push notifications: registration by tasks/pushNotification/set and by
\* tasks/send, and the notifications the send attempts
NextPush ==
    \/ CallSetPush
    \/ CallGetPush
    \/ HttpRequest(PushBodies)
    \/ CallSendTask(PushSends("tasks/send"))
    \/ AgentReturns

SpecPush == Init /\ [][NextPush]_vars

\* The router with every body it can meet, over the store of one task that
\* an in-process tasks/send and tasks/cancel fill
NextRouter ==
    \/ HttpRequest(HttpBodies)
    \/ CallSendTask(OneSend("tasks/send"))
    \/ AgentReturns
    \/ CancelTask(CancelsR1)

SpecRouter == Init /\ [][NextRouter]_vars

\* The histories of the task store: upserts by tasks/send with and without
\* historyLength, status updates by the agent's answer, cancels and gets
NextStore ==
    \/ CallSendTask(StoreSends("tasks/send"))
    \/ AgentReturns
    \/ CancelTask(CancelsR1)
    \/ GetTask({r \in QueryRequests("tasks/get") : r.id = "r1" /\ r.hist = 1})

SpecStore == Init /\ [][NextStore]_vars

\* The writers of one task's status as time passes: tasks/send and the
\* agent's answer, tasks/sendSubscribe and its producer, tasks/cancel
NextClock ==
    \/ CallSendTask(OneSend("tasks/send"))
    \/ AgentReturns
    \/ CallSendTaskSubscribe(OneSend("tasks/sendSubscribe"))
    \/ AgentYields
    \/ CancelTask({r \in CancelsR1 : r.task = "T1"})
    \/ Tick

SpecClock == Init /\ [][NextClock]_vars

\* Upserts by tasks/sendSubscribe on tasks that tasks/send, the agent's
\* answer and tasks/cancel have left in every state
NextUpsert ==
    \/ CallSendTask(PlainSends("tasks/send"))
    \/ AgentReturns
    \/ CancelTask(CancelsR1)
    \/ CallSendTaskSubscribe(PlainSends("tasks/sendSubscribe"))

SpecUpsert == Init /\ [][NextUpsert]_vars

\* Validation: the two send methods with requests that pass and requests
\* that are rejected
NextReject ==
    \/ CallSendTask(RejectSends("tasks/send"))
    \/ AgentReturns
    \/ CallSendTaskSubscribe(RejectSends("tasks/sendSubscribe"))
    \/ AgentYields

SpecReject == Init /\ [][NextReject]_vars

\* Reading histories: tasks/send with and without historyLength, the agent's
\* answer, and tasks/get with and without historyLength
NextHistory ==
    \/ CallSendTask(StoreSends("tasks/send"))
    \/ AgentReturns
    \/ GetTask({r \in QueryRequests("tasks/get") : r.id = "r1"})

SpecHistory == Init /\ [][NextHistory]_vars

\* Consumers that come and go: tasks/sendSubscribe and its producer,
\* tasks/resubscribe, and clients that disconnect from their stream
NextDetach ==
    \/ CallSendTaskSubscribe(PlainSends("tasks/sendSubscribe"))
    \/ CallResubscribe
    \/ AgentYields
    \/ CloseConsumer

SpecDetach == Init /\ [][NextDetach]_vars

\* Two tasks side by side: on T1 requests that fail in validation, in the
\* task's lifecycle, in the agent or in the router; on T2 a stream with a push
\* configuration, whose producer fails in turn
NextIsolation ==
    \/ HttpRequest(ErrorBodies)
    \/ CallSendTask(RequestsFor(RejectSends("tasks/send"), "T1"))
    \/ AgentReturns
    \/ CallSendTaskSubscribe(RequestsFor(PushSends("tasks/sendSubscribe"), "T2"))
    \/ AgentYields
    \/ CallResubscribe
    \/ CancelTask(RequestsFor(CancelsR1, "T1"))

SpecIsolation == Init /\ [][NextIsolation]_vars

\* Discovery next to task requests: GETs of the Agent Card between POSTs,
\* tasks/send calls, agent answers and cancels
NextCard ==
    \/ GetAgentCard
    \/ HttpRequest(ErrorBodies)
    \/ CallSendTask(PlainSends("tasks/send"))
    \/ AgentReturns
    \/ CancelTask(CancelsR1)

SpecCard == Init /\ [][NextCard]_vars

\* tasks/send alone: one request per task, the agent's answer, and tasks/get
\* reading the store while the agent is at work
NextSend ==
    \/ CallSendTask(RequestsFor(PlainSends("tasks/send"), "T1")
                    \cup RequestsFor(PlainSends("tasks/send"), "T2"))
    \/ AgentReturns
    \/ GetTask(QueryRequests("tasks/get"))

SpecSend == Init /\ [][NextSend]_vars

\* Notifications: tasks/send on one task and tasks/sendSubscribe with its
\* producer on the other, each with and without a push configuration, whose
\* url answers the verification or does not
NextNotify ==
    \/ CallSendTask(RequestsFor(PlainSends("tasks/send"), "T1")
                        \cup RequestsFor(PushSends("tasks/send"), "T1"))
    \/ AgentReturns
    \/ CallSendTaskSubscribe(
           RequestsFor(PlainSends("tasks/sendSubscribe"), "T2")
               \cup RequestsFor(PushSends("tasks/sendSubscribe"), "T2"))
    \/ AgentYields

SpecNotify == Init /\ [][NextNotify]_vars

\* The host agent: a conversation of send_message calls
NextHost == HostSendMessage

SpecHost == Init /\ [][NextHost]_vars

\* The frame processor: the caller adding frames and taking results, the
\* worker threads, start and stop
NextFrames ==
    \/ StartProcessing
    \/ StopProcessing
    \/ AddFrame
    \/ WorkerTake
    \/ WorkerFinish
    \/ WorkerRaise
    \/ GetProcessedFrame

SpecFrames == Init /\ [][NextFrames]_vars

\* ------------------------------------------------------------------- claims
\* the step's exchange is a well-formed request of this method
Asked(x, method) ==
    /\ x.via # "none"
    /\ x.req.shape = "dict"
    /\ x.req.pshape = "ok"
    /\ x.req.method = method

\* the step's exchange was answered with a Task
GotTask(x) == x.out = "response" /\ x.resp.result.tag = "task"

\* C1: a POST whose body parses as JSON and carries an id X is answered with a
\* response whose id is X, whatever the response is
C1_ResponseEchoesId ==
    (last.via = "http" /\ last.req.shape # "notjson" /\ last.req.id \in ReqIds)
        => (last.out = "response" /\ last.resp.id = last.req.id)

\* C2: every JSON-RPC response, from the router or from a handler, has exactly
\* one of result and error
C2_ResultXorError ==
    last.out = "response"
        => ((last.resp.result = NoResult) # (last.resp.error = NoError))

\* a POST was answered through _handle_exception with an internal error
C2_Witness ==
    /\ last.via = "http"
    /\ last.out = "response"
    /\ last.exc = Null
    /\ last.resp.error = INTERNAL_ERROR
    /\ last.resp.result = NoResult

\* C3: message/send for a message with taskId T, the agent answering
\* is_task_complete with content X, returns Task T, COMPLETED, with the one
\* artifact X
C3_MessageSendCompletes ==
    (/\ last.via = "http"
     /\ Asked(last, "message/send")
     /\ ~last.agent.raises
     /\ last.agent.is_task_complete)
        => (/\ GotTask(last)
            /\ last.resp.result.id = last.req.task
            /\ last.resp.result.state = COMPLETED
            /\ last.resp.result.artifacts = <<last.agent.content>>)

\* C4: a tasks/get for T that follows a message/send for T that returned a
\* task finds the task and reports the state the send reported
C4_GetAfterSend ==
    [][(/\ Asked(last, "message/send")
        /\ GotTask(last)
        /\ Asked(last', "tasks/get")
        /\ last'.req.task = last.req.task)
           => (/\ GotTask(last')
               /\ last'.resp.result.state = last.resp.result.state)]_vars

\* the events a subscriber is to observe for one yielded item: a status event
\* with final=false for a WORKING item, an artifact event and then a status
\* event with final=true for a completed one
ObservedFor(item) ==
    IF ItemState(item) = WORKING
    THEN << [kind |-> "status", state |-> WORKING, final |-> FALSE,
             text |-> item.content] >>
    ELSE << [kind |-> "artifact", state |-> COMPLETED, final |-> FALSE,
             text |-> item.content],
            [kind |-> "status", state |-> COMPLETED, final |-> TRUE,
             text |-> item.content] >>

RECURSIVE Observed(_)
Observed(items) ==
    IF items = <<>> THEN <<>>
    ELSE ObservedFor(Head(items)) \o Observed(Tail(items))

\* WORKING items, then possibly one completed item
ScenarioB(items) ==
    /\ items # <<>>
    /\ \A i \in 1..(Len(items) - 1) : ItemState(items[i]) = WORKING
    /\ ItemState(items[Len(items)]) \in {WORKING, COMPLETED}

\* C5: when the agent's stream has yielded n WORKING items, followed or not
\* yet followed by one completed item, the subscriber of tasks/sendSubscribe
\* has observed n status events with final=false and, for the completed item,
\* one artifact event and then one status event with final=true, in that
\* order and with nothing else
C5_StreamEvents ==
    \A p \in DOMAIN producers :
        (/\ ScenarioB(producers[p].yielded)
         /\ Attached(producers[p].task) = 1)
            => subscribers[producers[p].task][1] = Observed(producers[p].yielded)

\* the stream of task t has come to its end-of-stream item
StreamFinished(t) ==
    \E p \in DOMAIN producers :
        /\ producers[p].task = t
        /\ producers[p].yielded # <<>>
        /\ ItemFinal(producers[p].yielded[Len(producers[p].yielded)])

\* the events with final=true the consumers of task t were sent
FinalEvents(t) ==
    IF t \notin DOMAIN subscribers THEN {}
    ELSE {e \in UNION {{subscribers[t][i][k] : k \in DOMAIN subscribers[t][i]} :
                          i \in DOMAIN subscribers[t]} : e.final}

GotError(x) ==
    x.out = "response" /\ x.resp.error # NoError /\ x.resp.result = NoResult

\* C7: a step in which the callback url did not answer the verification
\* challenge leaves the registry as it was, so nothing is stored and a
\* configuration stored earlier stays; tasks/pushNotification/set answers it
\* with an error; and tasks/pushNotification/get reports the registry's entry
\* for the task, or none
C7_PushFailsClosed ==
    [][/\ last'.verified = "no" => push_infos' = push_infos
       /\ (Asked(last', "tasks/pushNotification/set") /\ last'.verified = "no")
             => GotError(last')
       /\ (Asked(last', "tasks/pushNotification/get") /\ ~GotError(last'))
             => (/\ last'.out = "response"
                 /\ last'.resp.result.url =
                        IF last'.req.task \in DOMAIN push_infos'
                        THEN push_infos'[last'.req.task] ELSE Null)]_vars

\* a tasks/pushNotification/set whose url did not answer was refused while
\* the task held a configuration with another url, which is still there
C7_Witness ==
    /\ Asked(last, "tasks/pushNotification/set")
    /\ last.verified = "no"
    /\ GotError(last)
    /\ last.req.task \in DOMAIN push_infos
    /\ push_infos[last.req.task] # last.req.push

\* C8: a request with an unknown method is answered with -32601
C8_MethodNotFound ==
    (/\ last.via = "http"
     /\ last.req.shape = "dict"
     /\ last.req.pshape = "ok"
     /\ last.req.method = UnknownMethod)
        => (last.out = "response" /\ last.resp.error = METHOD_NOT_FOUND)

\* C9: tasks/cancel on a task stored in a terminal state is answered with
\* not-cancelable and the stored task stays as it is
C9_CancelTerminal ==
    [][(/\ Asked(last', "tasks/cancel")
        /\ last'.req.task \in DOMAIN tasks
        /\ tasks[last'.req.task].status.state \in TerminalStates)
           => (/\ last'.out = "response"
               /\ last'.resp.error = TASK_NOT_CANCELABLE
               /\ tasks' = tasks)]_vars

\* C10: tasks/cancel on a task stored in a non-terminal state stores CANCELED
\* and returns the task; calls in flight and producers go on
C10_CancelNonTerminal ==
    [][(/\ Asked(last', "tasks/cancel")
        /\ last'.req.task \in DOMAIN tasks
        /\ tasks[last'.req.task].status.state \notin TerminalStates)
           => (/\ tasks'[last'.req.task].status.state = CANCELED
               /\ GotTask(last')
               /\ last'.resp.result.state = CANCELED
               /\ inflight' = inflight
               /\ producers' = producers)]_vars

\* C11: tasks/resubscribe for an id that no request created ends in a response
\* whose error is task-not-found (-32001): no exception leaves the handler
\* and no stream is handed out
C11_ResubscribeUnknown ==
    [][(/\ Asked(last', "tasks/resubscribe")
        /\ last'.req.task \notin DOMAIN tasks
        /\ last'.req.task \notin DOMAIN subscribers)
           => (/\ last'.out = "response"
               /\ last'.resp.error = TASK_NOT_FOUND)]_vars

C13_SendFailureStored ==
    [][(/\ Asked(last', "tasks/send")
        /\ last'.agent.raises)
           => (/\ last'.req.task \in DOMAIN tasks'
               /\ tasks'[last'.req.task].status.state = FAILED)]_vars

Closed(t) ==
    \E k \in DOMAIN subscribers[t][1] :
        subscribers[t][1][k].final \/ subscribers[t][1][k].kind = "error"

\* C15: a producer that has stopped after an end-of-stream item or after a
\* failure has sent its subscriber a final event or an error event, so that
\* no subscriber waits on a producer that has stopped
C15_StoppedProducerClosed ==
    \A p \in DOMAIN producers :
        (\/ producers[p].pc = "crashed"
         \/ /\ producers[p].yielded # <<>>
            /\ ItemFinal(producers[p].yielded[Len(producers[p].yielded)]))
            => Closed(producers[p].task)

\* the exchange was rejected for a validation reason: incompatible output
\* modes, a push configuration without url, or a url that failed verification
Rejected(x) ==
    /\ x.via # "none"
    /\ x.req.method \in {"tasks/send", "tasks/sendSubscribe"}
    /\ \/ x.req.modes # "ok"
       \/ x.req.push = "emptyurl"
       \/ x.verified = "no"

\* C16: a tasks/send or tasks/sendSubscribe rejected for a validation reason
\* leaves the task store as it was and starts no agent call and no producer
C16_RejectionLeavesStore ==
    [][Rejected(last')
           => (/\ tasks' = tasks
               /\ last'.agent = NoAgent
               /\ inflight' = inflight
               /\ producers' = producers)]_vars

\* C17: a body that is no JSON is answered with -32700 and id null, a body
\* that is JSON but no request object with -32600; neither changes a task nor
\* starts an agent call or a producer
C17_FormatErrors ==
    [][(last'.via = "http" /\ last'.req.shape # "dict")
           => (/\ last'.out = "response"
               /\ last'.req.shape = "notjson"
                     => (last'.resp.error = PARSE_ERROR /\ last'.resp.id = Null)
               /\ last'.req.shape = "notdict"
                     => last'.resp.error = INVALID_REQUEST
               /\ tasks' = tasks
               /\ inflight' = inflight
               /\ producers' = producers)]_vars

\* C18: every write of a task's status, by tasks/send, by the agent's answer,
\* by a stream producer or by tasks/cancel, records a timestamp that is not
\* earlier than the one it replaces
C18_MonotonicTimestamps ==
    [][\A t \in DOMAIN tasks :
           /\ t \in DOMAIN tasks'
           /\ tasks'[t].status.timestamp >= tasks[t].status.timestamp]_vars

\* a status written after the clock moved has replaced the status the task
\* was created with
C18_Witness ==
    \E t \in DOMAIN tasks :
        /\ tasks[t].status.state \in {COMPLETED, INPUT_REQUIRED, CANCELED}
        /\ tasks[t].status.timestamp > 0

\* sequence a is the beginning of sequence b
IsPrefix(a, b) == Len(a) <= Len(b) /\ SubSeq(b, 1, Len(a)) = a

\* C19: a stored task stays stored under its id, and its stored history only
\* grows: after every upsert, status update, get and cancel the history has
\* the earlier history as a prefix
C19_HistoryAppendOnly ==
    [][\A t \in DOMAIN tasks :
           /\ t \in DOMAIN tasks'
           /\ IsPrefix(tasks[t].history, tasks'[t].history)]_vars

\* a tasks/send that asked for one message of history was answered with one
\* while the stored task holds two
C19_Witness ==
    /\ Asked(last, "tasks/send")
    /\ GotTask(last)
    /\ last.req.hist = 1
    /\ Len(last.resp.result.history) = 1
    /\ Len(tasks[last.req.task].history) = 2

\* C20: the upsert of an accepted tasks/sendSubscribe creates an unknown task
\* as SUBMITTED with the request's message as its whole history, and for a
\* known task appends the message and leaves everything else, the status
\* included, as it was, whatever the task's state is
C20_Upsert ==
    [][(/\ Asked(last', "tasks/sendSubscribe")
        /\ last'.out = "stream")
           => IF last'.req.task \in DOMAIN tasks
              THEN tasks'[last'.req.task] =
                       [tasks[last'.req.task] EXCEPT
                            !.history = Append(@, last'.req.text)]
              ELSE /\ tasks'[last'.req.task].status.state = SUBMITTED
                   /\ tasks'[last'.req.task].history = <<last'.req.text>>
                   /\ tasks'[last'.req.task].artifacts = <<>>]_vars

\* a tasks/sendSubscribe was accepted for a task that was already in a
\* terminal state and is still in it, with the new message in its history
C20_Witness ==
    /\ Asked(last, "tasks/sendSubscribe")
    /\ last.out = "stream"
    /\ tasks[last.req.task].status.state \in TerminalStates
    /\ Len(tasks[last.req.task].history) = 2
    /\ tasks[last.req.task].history[2] = last.req.text

\* the messages of a sequence
Range(s) == {s[i] : i \in DOMAIN s}

\* the message that the upsert of this step brought for task t: the one of a
\* tasks/send that has gone on to wait for the agent, or of a
\* tasks/sendSubscribe that was accepted
Upserted(t) ==
    {c.req.text : c \in {d \in inflight' \ inflight : d.req.task = t}}
    \cup
    (IF /\ Asked(last', "tasks/sendSubscribe")
        /\ last'.out = "stream"
        /\ last'.req.task = t
     THEN {last'.req.text} ELSE {})

\* C21: upserts of one id by calls that run together create the task once:
\* an upsert of a known id adds its message to the history that is there, an
\* upsert of an unknown id starts the history, and the history holds the
\* message of every tasks/send that is still waiting for its agent
C21_ConcurrentUpserts ==
    [][/\ \A t \in TaskIds : \A m \in Upserted(t) :
              tasks'[t].history =
                  (IF t \in DOMAIN tasks THEN tasks[t].history ELSE <<>>) \o <<m>>
       /\ \A c \in inflight' :
              /\ c.req.task \in DOMAIN tasks'
              /\ c.req.text \in Range(tasks'[c.req.task].history)]_vars

\* a tasks/sendSubscribe was accepted for the task of a tasks/send that is
\* waiting for its agent, and the one stored task holds both messages
C21_Witness ==
    /\ Asked(last, "tasks/sendSubscribe")
    /\ last.out = "stream"
    /\ \E c \in inflight :
           /\ c.req.task = last.req.task
           /\ tasks[c.req.task].history = <<c.req.text, last.req.text>>

\* C22: the writes of a stream producer, of tasks/send and of tasks/cancel to
\* one task are applied one after another and none is lost: every step leaves
\* the artifacts written so far in place and adds its own behind them, a status
\* it writes carries the time of the write, which is not before the time of
\* the status it replaces, and the task a late tasks/send returns is the
\* stored task with the artifacts of the stream before its own
C22_SerializedWrites ==
    [][\A t \in DOMAIN tasks :
           /\ t \in DOMAIN tasks'
           /\ IsPrefix(tasks[t].artifacts, tasks'[t].artifacts)
           /\ \/ tasks'[t].status = tasks[t].status
              \/ /\ tasks'[t].status.timestamp = clock
                 /\ tasks'[t].status.timestamp >= tasks[t].status.timestamp
           /\ (/\ Asked(last', "tasks/send")
               /\ GotTask(last')
               /\ last'.req.task = t)
                  => (/\ tasks'[t].artifacts =
                             tasks[t].artifacts \o AgentArtifacts(last'.agent)
                      /\ last'.resp.result.artifacts = tasks'[t].artifacts
                      /\ last'.resp.result.state = tasks'[t].status.state)]_vars

\* a tasks/send whose agent answered after a stream producer of the same task
\* had stored a completed item, at a later time: the stored task holds the
\* artifact of the stream and then the artifact of the send
C22_Witness ==
    /\ Asked(last, "tasks/send")
    /\ GotTask(last)
    /\ Len(tasks[last.req.task].artifacts) = 2
    /\ tasks[last.req.task].status.timestamp > 0
    /\ \E p \in DOMAIN producers :
           /\ producers[p].task = last.req.task
           /\ producers[p].yielded # <<>>
           /\ ItemState(producers[p].yielded[1]) = COMPLETED

\* C23: a task returned by tasks/get or by tasks/send under a history limit N
\* carries the N most recent entries of the stored history, or all of them if
\* there are fewer; returned without a limit it carries the whole stored
\* history; and the step that returns it leaves the stored history as it was
C23_HistoryLimit ==
    [][(/\ GotTask(last')
        /\ last'.req.method \in {"tasks/get", "tasks/send"})
           => LET t      == last'.req.task
                  n      == last'.req.hist
                  stored == tasks'[t].history
                  got    == last'.resp.result.history
              IN  /\ t \in DOMAIN tasks
                  /\ stored = tasks[t].history
                  /\ n = HistNone => got = stored
                  /\ n # HistNone =>
                        /\ Len(got) = IF n < Len(stored) THEN n ELSE Len(stored)
                        /\ got = SubSeq(stored, Len(stored) - Len(got) + 1,
                                        Len(stored))]_vars

\* a tasks/get that asked for one entry was answered with the most recent
\* one while the stored task holds two
C23_Witness ==
    /\ Asked(last, "tasks/get")
    /\ GotTask(last)
    /\ last.req.hist = 1
    /\ Len(tasks[last.req.task].history) = 2
    /\ last.resp.result.history = <<tasks[last.req.task].history[2]>>

\* the events the producer is to publish for the items it has taken from the
\* agent, in the order it produces them: for a completed item the artifact
\* event and then the status event, for any other item the status event
RECURSIVE Published(_)
Published(items) ==
    IF items = <<>> THEN <<>>
    ELSE LET item == Head(items)
             st   == [kind |-> "status", state |-> ItemState(item),
                      final |-> ItemFinal(item), text |-> item.content]
             art  == [kind |-> "artifact", state |-> ItemState(item),
                      final |-> FALSE, text |-> item.content]
         IN  (IF ItemState(item) = COMPLETED THEN <<art, st>> ELSE <<st>>)
                 \o Published(Tail(items))

\* sequence a is the end of sequence b
IsSuffix(a, b) ==
    Len(a) <= Len(b) /\ SubSeq(b, Len(b) - Len(a) + 1, Len(b)) = a

Takes(p) == Len(producers'[p].yielded) > Len(producers[p].yielded)

\* the item producer p takes in this step
Taken(p) == producers'[p].yielded[Len(producers'[p].yielded)]

\* C26: a consumer that detaches takes its own queue with it and nothing
\* else: the store, the producers and every other queue stay as they are; and
\* the producer of its task goes on: the next item it takes from the agent is
\* stored with its status and the producer is still running afterwards
C26_DetachLeavesOthers ==
    [][/\ last'.via = "disconnect" =>
              /\ tasks' = tasks
              /\ producers' = producers
              /\ \A t \in DOMAIN subscribers :
                     IF t = last'.req.task
                     THEN \E i \in DOMAIN subscribers[t] :
                              subscribers'[t] = closeConsumer(subscribers, t, i)[t]
                     ELSE subscribers'[t] = subscribers[t]
       /\ \A p \in DOMAIN producers :
              (/\ last.via = "disconnect"
               /\ last.req.task = producers[p].task
               /\ Takes(p))
                  => (/\ producers'[p].pc = "running"
                      /\ tasks'[producers[p].task].status.state =
                             ItemState(Taken(p)))]_vars

\* C27: consumers do not hold the producer up: whether no consumer is
\* attached or the attached ones never read, each item the producer takes is
\* stored, its events are put behind what every attached queue holds, and the
\* producer is running afterwards, ready for the agent's next item
C27_ProducerNeverBlocked ==
    [][\A p \in DOMAIN producers :
           Takes(p) =>
               LET t == producers[p].task
               IN  /\ producers'[p].pc = "running"
                   /\ tasks'[t].status.state = ItemState(Taken(p))
                   /\ \A i \in DOMAIN subscribers[t] :
                          subscribers'[t][i] =
                              subscribers[t][i] \o Published(<<Taken(p)>>)]_vars

\* C28: a step that attempts a push notification, delivered or not, does what
\* it does without one: the stored state is the state written before the
\* attempt, which is the state notified; a tasks/send that ends in the step
\* returns the task in that state; a producer that takes an item in the step
\* publishes the item's events to every attached consumer
C28_NotificationContained ==
    [][notified' # <<>> =>
           LET t == notified'[1][1]
           IN  /\ tasks'[t].status.state = notified'[1][2]
               /\ (Asked(last', "tasks/send") /\ last'.req.task = t)
                      => (/\ GotTask(last')
                          /\ last'.resp.result.state = tasks'[t].status.state)
               /\ \A p \in DOMAIN producers :
                      (producers[p].task = t /\ Takes(p))
                          => \A i \in DOMAIN subscribers[t] :
                                 subscribers'[t][i] =
                                     subscribers[t][i] \o Published(<<Taken(p)>>)]_vars

\* the step fails on task a: a request for a ends in an error response or in
\* an exception, or the producer of a dies
FailsOn(a) ==
    \/ /\ last'.via \in {"http", "direct"}
       /\ last'.req.task = a
       /\ (last'.out = "raise" \/ GotError(last'))
    \/ \E p \in DOMAIN producers :
           /\ producers[p].task = a
           /\ producers[p].pc = "running"
           /\ producers'[p].pc = "crashed"

\* the step leaves everything that belongs to task b as it is: the stored
\* task, the push configuration, the consumers and their queues, the producers
\* and the calls waiting for the agent
Untouched(b) ==
    /\ (b \in DOMAIN tasks') = (b \in DOMAIN tasks)
    /\ b \in DOMAIN tasks => tasks'[b] = tasks[b]
    /\ (b \in DOMAIN push_infos') = (b \in DOMAIN push_infos)
    /\ b \in DOMAIN push_infos => push_infos'[b] = push_infos[b]
    /\ (b \in DOMAIN subscribers') = (b \in DOMAIN subscribers)
    /\ b \in DOMAIN subscribers => subscribers'[b] = subscribers[b]
    /\ \A p \in DOMAIN producers' :
           producers'[p].task = b
               => (p \in DOMAIN producers /\ producers'[p] = producers[p])
    /\ {c \in inflight' : c.req.task = b} = {c \in inflight : c.req.task = b}

\* C29: a step that fails on task A, in validation, in the lifecycle, in the
\* agent or in the producer, leaves everything of every other task B as it
\* is; and the router answers every POST, no exception leaves it
C29_ErrorsStayLocal ==
    [][/\ \A a \in TaskIds : FailsOn(a) => \A b \in TaskIds \ {a} : Untouched(b)
       /\ last'.via = "http" => last'.out \in {"response", "stream"}]_vars

\* the agent of a tasks/send for T1 raised while T2 is stored with a push
\* configuration and an attached consumer
C29_Witness ==
    /\ Asked(last, "tasks/send")
    /\ last.req.task = "T1"
    /\ last.agent.raises
    /\ last.out = "raise"
    /\ "T2" \in DOMAIN tasks
    /\ "T2" \in DOMAIN push_infos
    /\ "T2" \in DOMAIN subscribers

\* the TaskLifecycle operation that belongs to a protocol method
OperationOf(method) ==
    CASE method \in {"message/send", "message/stream"} -> "on_a2a_message_send"
      [] method = "tasks/get" -> "on_get_task"
      [] method = "tasks/send" -> "on_send_task"
      [] method = "tasks/sendSubscribe" -> "on_send_task_subscribe"
      [] method = "tasks/cancel" -> "on_cancel_task"
      [] method = "tasks/pushNotification/set" -> "on_set_task_push_notification"
      [] method = "tasks/pushNotification/get" -> "on_get_task_push_notification"
      [] method = "tasks/resubscribe" -> "on_resubscribe_to_task"

\* C30: for a POST that is a well-formed request of a protocol method the
\* router calls one operation, the one that belongs to the method; for any
\* other POST the router answers before the dispatch and calls none
C30_HandledOnce ==
    last.via = "http" =>
        IF /\ last.req.shape = "dict"
           /\ last.req.pshape = "ok"
           /\ last.req.method \in MethodNames
        THEN /\ Parse(last.req).out = "dispatch"
             /\ Dispatch(last.req) = OperationOf(last.req.method)
        ELSE Parse(last.req).out # "dispatch"

\* the methods the protocol answers with an event stream
StreamingMethods == {"message/stream", "tasks/sendSubscribe", "tasks/resubscribe"}

\* C31: a well-formed POST of message/stream or tasks/sendSubscribe, and one
\* of tasks/resubscribe for a task the hub holds, is answered with an event
\* stream; a well-formed POST of any other protocol method is answered with
\* a single JSON response
C31_StreamOrSingle ==
    (/\ last.via = "http"
     /\ last.req.shape = "dict"
     /\ last.req.pshape = "ok"
     /\ last.req.method \in MethodNames)
        => IF last.req.method \in StreamingMethods
           THEN (\/ last.req.method # "tasks/resubscribe"
                 \/ last.req.task \in DOMAIN subscribers)
                    => last.out = "stream"
           ELSE last.out = "response"

StateFor(item) ==
    IF item.require_user_input THEN INPUT_REQUIRED
    ELSE IF item.is_task_complete THEN COMPLETED
    ELSE WORKING

\* C34: for each item it takes the producer records one status:
\* INPUT_REQUIRED if require_user_input is set, whatever is_task_complete
\* says, otherwise COMPLETED if is_task_complete is set, otherwise WORKING;
\* final is set except for WORKING; the status message is the item's text
\* except for COMPLETED, which adds one artifact with the text instead; and
\* what the step puts into a consumer's queue is a beginning of: the artifact
\* event, for COMPLETED only, and then the status event
C34_ItemMapping ==
    [][\A p \in DOMAIN producers :
           Takes(p) =>
               LET y == Taken(p)
                   t == producers[p].task
               IN  /\ tasks'[t].status.state = StateFor(y)
                   /\ ItemFinal(y) = (y.require_user_input \/ y.is_task_complete)
                   /\ tasks'[t].status.message =
                          IF StateFor(y) = COMPLETED THEN Null ELSE y.content
                   /\ tasks'[t].artifacts =
                          IF StateFor(y) = COMPLETED
                          THEN Append(tasks[t].artifacts, y.content)
                          ELSE tasks[t].artifacts
                   /\ \A i \in DOMAIN subscribers[t] :
                          \E k \in 0..Len(Published(<<y>>)) :
                              subscribers'[t][i] =
                                  subscribers[t][i]
                                      \o SubSeq(Published(<<y>>), 1, k)]_vars

\* the producer has taken an item that sets require_user_input together with
\* is_task_complete, and the task is stored as INPUT_REQUIRED with the item's
\* text and without an artifact
C34_Witness ==
    \E p \in DOMAIN producers :
        /\ producers[p].yielded # <<>>
        /\ producers[p].yielded[1].require_user_input
        /\ producers[p].yielded[1].is_task_complete
        /\ tasks[producers[p].task].status.state = INPUT_REQUIRED
        /\ tasks[producers[p].task].status.message = "Hi"
        /\ tasks[producers[p].task].artifacts = <<>>

\* C36: terminal states are not protected.  A tasks/send for a task stored as
\* COMPLETED, CANCELED or FAILED is not rejected: it is taken up and the
\* stored state becomes WORKING; when its agent answers, the stored state
\* becomes the state of the answer, whatever was stored; and an item taken by
\* a stream producer replaces a terminal state by the state of the item
C36_TerminalOverwritten ==
    [][/\ \A t \in DOMAIN tasks :
              tasks[t].status.state \in {COMPLETED, CANCELED, FAILED} =>
                  /\ ~(/\ last' # last
                       /\ last'.req.method = "tasks/send"
                       /\ last'.req.task = t
                       /\ inflight' = inflight)
                  /\ \A c \in inflight' \ inflight :
                         c.req.task = t => tasks'[t].status.state = WORKING
                  /\ \A p \in DOMAIN producers :
                         Takes(p) /\ producers[p].task = t =>
                             tasks'[t].status.state = StateFor(Taken(p))
      /\ \A c \in inflight \ inflight' :
             last'.out = "response" =>
                 /\ tasks'[c.req.task].status.state
                        \in {COMPLETED, INPUT_REQUIRED}
                 /\ tasks'[c.req.task].status.state = last'.resp.result.state
     ]_vars

\* a tasks/send has been answered COMPLETED for a task that had been completed
\* before: the task holds the artifacts of both completions
C36_Witness ==
    /\ last.out = "response"
    /\ last.req.method = "tasks/send"
    /\ last.resp.result.state = COMPLETED
    /\ last.req.task \in DOMAIN tasks
    /\ tasks[last.req.task].status.state = COMPLETED
    /\ Len(tasks[last.req.task].artifacts) = 2

\* the tasks whose status the step records through tasks/send (taken up, or
\* answered by the agent) or through a stream producer taking an item
Recorded ==
    {t \in DOMAIN tasks' :
        \/ \E c \in inflight' \ inflight : c.req.task = t
        \/ \E c \in inflight \ inflight' :
               c.req.task = t /\ last'.out = "response"
        \/ \E p \in DOMAIN producers : producers[p].task = t /\ Takes(p)}

\* C37: a step that records a status through tasks/send or a stream producer
\* makes, in the same step, exactly one notification attempt for the task,
\* with the state just stored, if the task has a push configuration, and none
\* if it has not; the attempt is made although the producer fails on the
\* event that follows; a step that records no such status attempts none
C37_NotifiedOnce ==
    [][/\ \A t \in Recorded :
              notified' = IF t \in DOMAIN push_infos'
                          THEN << <<t, tasks'[t].status.state>> >>
                          ELSE <<>>
       /\ Recorded = {} => notified' = <<>>]_vars

\* the producer of a task with a push configuration has taken an item: the
\* state it stored was notified, and no event reached the attached consumer
C37_Witness ==
    \E p \in DOMAIN producers :
        /\ producers[p].yielded # <<>>
        /\ producers[p].task \in DOMAIN push_infos
        /\ notified = << <<producers[p].task,
                           tasks[producers[p].task].status.state>> >>
        /\ \A i \in DOMAIN subscribers[producers[p].task] :
               subscribers[producers[p].task][i] = <<>>

\* the call gave its caller a result and the remote agent had answered with
\* a task
ReturnedTask(call) ==
    /\ call.answer.kind = "task"
    /\ HostReturn(call.answer) # "RuntimeError"

\* C38: after a send_message that returned a task, the next send_message
\* posts the task id and the context id of that result
C38_ConversationContinues ==
    \A i \in 1..(Len(host.posted) - 1) :
        ReturnedTask(host.posted[i]) =>
            /\ host.posted[i + 1].taskId = host.posted[i].answer.id
            /\ host.posted[i + 1].contextId = host.posted[i].answer.contextId

\* C39: the buffers marked in_use are as many as the frames waiting in
\* frame_queue and the frames the workers are processing
C39_PoolConserved ==
    Cardinality({b \in 1..PoolSize : processor.frame_buffer_pool[b]})
        = Len(processor.frame_queue)
            + Cardinality({w \in 1..NumWorkers : processor.workers[w] # Idle})

====
